---------------------------- MODULE Spec2Model ----------------------------
(***************************************************************************)
(* A model of the speech-recognition session wrapper (WebSpeechRecognizer, *)
(* app/lib/webSpeechAPI.ts) and of the turn coordination of                *)
(* InteractiveAvatar.tsx.                                                  *)
(*                                                                         *)
(* JavaScript runs every handler to completion: one action is one handler, *)
(* or the part of an async function between two awaits.  Timers and        *)
(* network calls in flight are state; their completion is an action.       *)
(***************************************************************************)
EXTENDS Integers, Sequences, FiniteSets, Bags

(* ------------------------------ bounds -------------------------------- *)

\* restart timers that may be pending at once
MaxTimers == 1
\* 'ended' events that arm a restart, counted for the per-event accounting
MaxEnded == 2
\* asynchronous activities of the coordinator that may be pending at once:
\* turns in flight, delayed resume() and start() calls, a startSession and a
\* resetSession between their awaits
MaxPending == 2

(* --------------------------- program constants ------------------------ *)

\* error codes the engine may report; the first two are the ignorable ones
ErrorCodes == {"no-speech", "aborted", "not-allowed", "network"}

\* raw transcripts of result entries (before trim)
Transcripts == {<<" ">>, <<"a">>, <<" ", "b", " ">>}

ResultEntries == [transcript : Transcripts, isFinal : BOOLEAN]

\* event.results: a non-empty list of entries, the newest last
ResultLists ==
    {<<e>> : e \in ResultEntries} \cup {<<d, e>> : d, e \in ResultEntries}

\* JavaScript values that are passed around as texts
JsString(v) == [type |-> "string", value |-> v]
JsUndefined == [type |-> "undefined", value |-> ""]

\* the fixed apology callOpenAI returns from its catch (the Korean sentence
\* of InteractiveAvatar.tsx line 124)
FallbackReply == JsString("fallback apology")

\* how a call of the chat route may end: a reply, a rejected fetch, a body
\* that is no JSON, the route's error response
CallOutcomes == {"ok", "rejected", "unparsable", "errorResponse"}

\* a message of the host page: its origin, as the string and as the parts
\* the string is made of (the first part is all of a trusted origin where
\* the origin begins with one), and its data
Origin(t, c) == [text |-> t, chars |-> c]

allowedOrigins ==
    {<<"https://sdkparkforbi.github.io">>, <<"http://localhost">>,
     <<"http://127.0.0.1">>}

MessageOrigins ==
    {Origin("https://sdkparkforbi.github.io",
            <<"https://sdkparkforbi.github.io">>),
     Origin("http://localhost.evil.example",
            <<"http://localhost", ".evil.example">>),
     Origin("https://evil.example", <<"https://evil.example">>)}

MessageData ==
    {[type |-> "TAB_CHANGED", tabId |-> "tab"],
     [type |-> "TAB_CHANGED", tabId |-> ""],
     [type |-> "OTHER", tabId |-> "tab"]}

\* the messages the window receives: a tab change from every origin, and
\* the other data from the trusted one
Messages ==
    {m \in [origin : MessageOrigins, data : MessageData] :
        \/ m.data = [type |-> "TAB_CHANGED", tabId |-> "tab"]
        \/ m.origin.text = "https://sdkparkforbi.github.io"}

\* the environments a session may be constructed in: a browser with the
\* engine, a browser without it, no window, and a browser whose engine
\* constructor throws
Environments == {"browser", "noengine", "ssr", "throwingengine"}

\* language tags given to setLanguage; the first is the configured default
Languages == {"ko-KR", "en-US"}

(* ------------------------------- state -------------------------------- *)

VARIABLES
    \* WebSpeechRecognizer fields (of the instance webSpeechRef refers to, or
    \* of the one session of Spec)
    recognition,      \* "engine" | "null": the owned engine handle
    isListening,
    isPaused,
    autoRestart,
    config,           \* [autoRestart |-> BOOLEAN, lang |-> a language tag]
    restartTimers,    \* pending setTimeout(..., 100) callbacks of onend
    \* the browser engine behind the handle
    engine,           \* "none" | "idle" | "starting" | "running" | "stopping" | "aborting"
    \* what the last step did to the session
    engineCall,       \* the engine call it made: "none" | "start" | "stop" | "abort"
    threw,            \* whether that engine call threw (and was caught)
    cb,               \* the session callbacks it invoked, in order
    \* what the last step was
    op,               \* the method, handler, event or timer of the last step
    arg,              \* its input (an error code, a result list, a turn kind), "" when it has none
    tick,             \* flips on every step of Spec, so that a repeated call is a step
    prevOp,           \* the step of Spec before the last one
    unsupportedReports, \* onError('Web Speech API not supported') calls so far
    escaped,          \* whether the last step of Spec threw to its caller
    \* history of the session of Spec
    afterPause,       \* pause() took effect and no start()/resume() was called since
    afterStop,        \* stop() took effect and no start()/resume() was called since
    endedArmed,       \* 'ended' events received while autoRestart and not paused
    restartsIssued,   \* restart timers that issued an engine start request
    restartsSkipped,  \* restart timers that fired without issuing one
    \* InteractiveAvatar: refs and state
    webSpeechRef,         \* whether webSpeechRef.current is a session
    isAvatarSpeakingRef,
    isProcessingRef,
    hasStartedRef,
    hasGreetedRef,
    isLoading,
    avatarRef,            \* whether avatarRef.current is an avatar
    sessionState,         \* "inactive" | "connecting" | "connected"
    \* InteractiveAvatar: async functions between their awaits
    startPc,              \* startSession: "idle" | "token" | "startAvatar"
    resetPc,              \* resetSession: "idle" | "stopping"
    tasks,                \* the turns in flight, a bag of [kind, pc, settled]
    resumeTimers,         \* pending 500 ms waits of the 'stopped talking' handler
    startTimers,          \* pending setTimeout(() => webSpeechRef.current?.start())
    \* the avatar service
    avatarSpeech          \* "silent" | "queued" | "talking" | "talkingQueued"

\* the session and what the last step did to it
sessionVars == <<recognition, isListening, isPaused, autoRestart, config,
                 restartTimers, engine, engineCall, threw, cb>>

stepVars == <<op, arg, tick, prevOp, unsupportedReports, escaped>>

historyVars == <<afterPause, afterStop, endedArmed, restartsIssued,
                 restartsSkipped>>

coordVars == <<webSpeechRef, isAvatarSpeakingRef, isProcessingRef,
               hasStartedRef, hasGreetedRef, isLoading, avatarRef, sessionState,
               startPc, resetPc, tasks, resumeTimers, startTimers, avatarSpeech>>

vars == <<sessionVars, stepVars, historyVars, coordVars>>

(* ------------------------------ callbacks ----------------------------- *)

Callback(n, t, c, f) == [name |-> n, text |-> t, code |-> c, isFinal |-> f]

CbOnResult(t, f) == Callback("onResult", t, "", f)
CbOnError(c) == Callback("onError", <<>>, c, FALSE)
CbOnStart == Callback("onStart", <<>>, "", FALSE)
CbOnEnd == Callback("onEnd", <<>>, "", FALSE)

\* what init() reports when the browser has no recognition engine
CbUnsupported == CbOnError("Web Speech API not supported")

(* -------------------------------- trim -------------------------------- *)

RECURSIVE TrimStart(_)
TrimStart(s) ==
    IF s = <<>> THEN <<>>
    ELSE IF Head(s) = " " THEN TrimStart(Tail(s))
    ELSE s

RECURSIVE TrimEnd(_)
TrimEnd(s) ==
    IF s = <<>> THEN <<>>
    ELSE IF s[Len(s)] = " " THEN TrimEnd(SubSeq(s, 1, Len(s) - 1))
    ELSE s

\* String.prototype.trim
Trim(s) == TrimEnd(TrimStart(s))

(* ------------------------------ the engine ---------------------------- *)

NoEngineCall ==
    /\ engine' = engine
    /\ engineCall' = "none"
    /\ threw' = FALSE

\* recognition.start(): throws InvalidStateError unless the engine is idle
EngineStart ==
    /\ engineCall' = "start"
    /\ IF engine = "idle"
       THEN engine' = "starting" /\ threw' = FALSE
       ELSE engine' = engine /\ threw' = TRUE

\* recognition.stop(): a graceful stop; nothing to do when not started
EngineStop ==
    /\ engineCall' = "stop"
    /\ threw' = FALSE
    /\ engine' = IF engine \in {"starting", "running"} THEN "stopping" ELSE engine

\* recognition.abort(): drops the recognition in flight
EngineAbort ==
    /\ engineCall' = "abort"
    /\ threw' = FALSE
    /\ engine' = IF engine \in {"starting", "running", "stopping"}
                 THEN "aborting" ELSE engine

(* ------------------------- WebSpeechRecognizer ------------------------ *)

\* constructor + init(): the fields of a new session in environment env, and
\* what constructing it did
NewSession(env, cfgAutoRestart) ==
    [config |-> [autoRestart |-> cfgAutoRestart, lang |-> "ko-KR"],
     autoRestart |-> cfgAutoRestart,
     escaped |-> env = "throwingengine",
     isListening |-> FALSE,
     isPaused |-> FALSE,
     restartTimers |-> 0,
     recognition |-> IF env = "browser" THEN "engine" ELSE "null",
     engine |-> IF env = "browser" THEN "idle" ELSE "none",
     engineCall |-> "none",
     threw |-> FALSE,
     cb |-> IF env = "noengine" THEN <<CbUnsupported>> ELSE <<>>]

\* a step that calls no method of the session and delivers no event to it
NoSessionCall ==
    /\ NoEngineCall
    /\ cb' = <<>>
    /\ UNCHANGED <<recognition, isListening, isPaused, autoRestart, config,
                   restartTimers>>

\* start() restoring the configured restart policy as resume() does
startRestoresAutoRestart ==
    IF recognition = "null" \/ isListening
    THEN NoSessionCall
    ELSE /\ isPaused' = FALSE
         /\ autoRestart' = config.autoRestart
         /\ EngineStart
         /\ cb' = <<>>
         /\ UNCHANGED <<recognition, isListening, config, restartTimers>>

\* start() without its isListening check
startIgnoresListening ==
    IF recognition = "null"
    THEN NoSessionCall
    ELSE /\ isPaused' = FALSE
         /\ EngineStart
         /\ cb' = <<>>
         /\ UNCHANGED <<recognition, isListening, autoRestart, config,
                        restartTimers>>

start ==
    IF recognition = "null" \/ isListening
    THEN NoSessionCall
    ELSE /\ isPaused' = FALSE
         /\ EngineStart
         /\ cb' = <<>>
         /\ UNCHANGED <<recognition, isListening, autoRestart, config,
                        restartTimers>>

\* stop() clearing autoRestart only
stopLeavesUnpaused ==
    IF recognition = "null"
    THEN NoSessionCall
    ELSE /\ autoRestart' = FALSE
         /\ EngineStop
         /\ cb' = <<>>
         /\ UNCHANGED <<recognition, isListening, isPaused, config,
                        restartTimers>>

stop ==
    IF recognition = "null"
    THEN NoSessionCall
    ELSE /\ isPaused' = TRUE
         /\ autoRestart' = FALSE
         /\ EngineStop
         /\ cb' = <<>>
         /\ UNCHANGED <<recognition, isListening, config, restartTimers>>

\* pause() clearing autoRestart as stop() does
pauseClearsAutoRestart ==
    IF recognition = "null"
    THEN NoSessionCall
    ELSE /\ isPaused' = TRUE
         /\ autoRestart' = FALSE
         /\ EngineAbort
         /\ cb' = <<>>
         /\ UNCHANGED <<recognition, isListening, config, restartTimers>>

pause ==
    IF recognition = "null"
    THEN NoSessionCall
    ELSE /\ isPaused' = TRUE
         /\ EngineAbort
         /\ cb' = <<>>
         /\ UNCHANGED <<recognition, isListening, autoRestart, config,
                        restartTimers>>

\* resume() without its check of the handle
resumeIgnoresHandle ==
    /\ isPaused' = FALSE
    /\ autoRestart' = config.autoRestart
    /\ EngineStart
    /\ cb' = <<>>
    /\ UNCHANGED <<recognition, isListening, config, restartTimers>>

resume ==
    IF recognition = "null"
    THEN NoSessionCall
    ELSE /\ isPaused' = FALSE
         /\ autoRestart' = config.autoRestart
         /\ EngineStart
         /\ cb' = <<>>
         /\ UNCHANGED <<recognition, isListening, config, restartTimers>>

\* destroy() keeping the handle after the abort
destroyKeepsHandle ==
    /\ isPaused' = TRUE
    /\ autoRestart' = FALSE
    /\ IF recognition # "null" THEN EngineAbort ELSE NoEngineCall
    /\ cb' = <<>>
    /\ UNCHANGED <<recognition, isListening, config, restartTimers>>

destroy ==
    /\ isPaused' = TRUE
    /\ autoRestart' = FALSE
    /\ IF recognition # "null" THEN EngineAbort ELSE NoEngineCall
    /\ recognition' = "null"
    /\ cb' = <<>>
    /\ UNCHANGED <<isListening, config, restartTimers>>

setLanguage(lang) ==
    IF recognition = "null"
    THEN NoSessionCall
    ELSE /\ config' = [config EXCEPT !.lang = lang]
         /\ NoEngineCall
         /\ cb' = <<>>
         /\ UNCHANGED <<recognition, isListening, isPaused, autoRestart,
                        restartTimers>>

(* ---------- engine events: the handlers installed by init() ---------- *)

\* onresult reading the first entry of the list
onresultTakesFirst(results) ==
    LET result == results[1]
        transcript == Trim(result.transcript)
    IN  /\ engine \in {"running", "stopping"}
        /\ cb' = IF transcript # <<>>
                 THEN <<CbOnResult(transcript, result.isFinal)>> ELSE <<>>
        /\ NoEngineCall
        /\ UNCHANGED <<recognition, isListening, isPaused, autoRestart, config,
                       restartTimers>>

\* recognition.onresult
onresult(results) ==
    LET result == results[Len(results)]
        transcript == Trim(result.transcript)
    IN  /\ engine \in {"running", "stopping"}
        /\ cb' = IF transcript # <<>>
                 THEN <<CbOnResult(transcript, result.isFinal)>> ELSE <<>>
        /\ NoEngineCall
        /\ UNCHANGED <<recognition, isListening, isPaused, autoRestart, config,
                       restartTimers>>

\* recognition.onstart
onstart ==
    /\ engine = "starting"
    /\ engine' = "running"
    /\ engineCall' = "none"
    /\ threw' = FALSE
    /\ isListening' = TRUE
    /\ cb' = <<CbOnStart>>
    /\ UNCHANGED <<recognition, isPaused, autoRestart, config, restartTimers>>

\* onend restarting inside the handler instead of arming the timer
onendRestartsAtOnce ==
    /\ engine \in {"starting", "running", "stopping", "aborting"}
    /\ isListening' = FALSE
    /\ cb' = <<CbOnEnd>>
    /\ engineCall' = IF autoRestart /\ ~isPaused THEN "start" ELSE "none"
    /\ threw' = FALSE
    /\ engine' = IF autoRestart /\ ~isPaused THEN "starting" ELSE "idle"
    /\ UNCHANGED <<recognition, isPaused, autoRestart, config, restartTimers>>

\* recognition.onend (the engine has stopped, by itself or on request)
onend ==
    /\ engine \in {"starting", "running", "stopping", "aborting"}
    /\ (autoRestart /\ ~isPaused) => restartTimers < MaxTimers
    /\ engine' = "idle"
    /\ engineCall' = "none"
    /\ threw' = FALSE
    /\ isListening' = FALSE
    /\ cb' = <<CbOnEnd>>
    /\ restartTimers' = IF autoRestart /\ ~isPaused
                        THEN restartTimers + 1 ELSE restartTimers
    /\ UNCHANGED <<recognition, isPaused, autoRestart, config>>

\* the timer callback without its isPaused check
restartTimerIgnoresPause ==
    /\ restartTimers > 0
    /\ restartTimers' = restartTimers - 1
    /\ IF recognition # "null" THEN EngineStart ELSE NoEngineCall
    /\ cb' = <<>>
    /\ UNCHANGED <<recognition, isListening, isPaused, autoRestart, config>>

\* the setTimeout callback armed by onend
restartTimer ==
    /\ restartTimers > 0
    /\ restartTimers' = restartTimers - 1
    /\ IF ~isPaused /\ recognition # "null" THEN EngineStart ELSE NoEngineCall
    /\ cb' = <<>>
    /\ UNCHANGED <<recognition, isListening, isPaused, autoRestart, config>>

\* onerror without the 'aborted' filter
onerrorForwardsAborted(code) ==
    /\ IF code = "aborted"
       THEN engine = "aborting"
       ELSE engine \in {"starting", "running", "stopping"}
    /\ cb' = IF code = "no-speech" THEN <<>> ELSE <<CbOnError(code)>>
    /\ NoEngineCall
    /\ UNCHANGED <<recognition, isListening, isPaused, autoRestart, config,
                   restartTimers>>

\* recognition.onerror; the engine reports "aborted" after an abort()
onerror(code) ==
    /\ IF code = "aborted"
       THEN engine = "aborting"
       ELSE engine \in {"starting", "running", "stopping"}
    /\ cb' = IF code = "no-speech" THEN <<>>
             ELSE IF code = "aborted" THEN <<>>
             ELSE <<CbOnError(code)>>
    /\ NoEngineCall
    /\ UNCHANGED <<recognition, isListening, isPaused, autoRestart, config,
                   restartTimers>>

(* ------------- the session under an arbitrary caller: Spec ------------ *)

\* the step's record: which operation, with which input; the session of
\* Spec has no coordinator.  Where the constructor threw there is no session
\* to call; every other operation returns to its caller
Step(o, a) ==
    /\ ~(op = "new" /\ escaped)
    /\ escaped' = FALSE
    /\ op' = o
    /\ arg' = a
    /\ tick' = 1 - tick
    /\ prevOp' = op
    /\ unsupportedReports' =
           unsupportedReports + Len(SelectSeq(cb', LAMBDA c : c = CbUnsupported))
    /\ UNCHANGED coordVars

SessionIs(s) ==
    /\ recognition = s.recognition
    /\ isListening = s.isListening
    /\ isPaused = s.isPaused
    /\ autoRestart = s.autoRestart
    /\ config = s.config
    /\ restartTimers = s.restartTimers
    /\ engine = s.engine
    /\ engineCall = s.engineCall
    /\ threw = s.threw
    /\ cb = s.cb

\* no history yet
HistoryInit ==
    /\ tick = 0
    /\ prevOp = ""
    /\ unsupportedReports = Len(SelectSeq(cb, LAMBDA c : c = CbUnsupported))
    /\ afterPause = FALSE
    /\ afterStop = FALSE
    /\ endedArmed = 0
    /\ restartsIssued = 0
    /\ restartsSkipped = 0

\* the component as mounted: nothing started, nothing in flight
Mounted ==
    /\ webSpeechRef = FALSE
    /\ isAvatarSpeakingRef = FALSE
    /\ isProcessingRef = FALSE
    /\ hasStartedRef = FALSE
    /\ hasGreetedRef = FALSE
    /\ isLoading = FALSE
    /\ avatarRef = FALSE
    /\ sessionState = "inactive"
    /\ startPc = "idle"
    /\ resetPc = "idle"
    /\ tasks = EmptyBag
    /\ resumeTimers = 0
    /\ startTimers = 0
    /\ avatarSpeech = "silent"

Init ==
    /\ \E env \in Environments, a \in BOOLEAN :
           /\ SessionIs(NewSession(env, a))
           /\ escaped = NewSession(env, a).escaped
    /\ op = "new"
    /\ arg = ""
    /\ HistoryInit
    /\ Mounted

Start ==
    /\ start
    /\ Step("start", "")
    /\ afterPause' = FALSE
    /\ afterStop' = FALSE
    /\ UNCHANGED <<endedArmed, restartsIssued, restartsSkipped>>

Stop ==
    /\ stop
    /\ Step("stop", "")
    /\ afterStop' = IF recognition # "null" THEN TRUE ELSE afterStop
    /\ UNCHANGED <<afterPause, endedArmed, restartsIssued, restartsSkipped>>

Pause ==
    /\ pause
    /\ Step("pause", "")
    /\ afterPause' = IF recognition # "null" THEN TRUE ELSE afterPause
    /\ UNCHANGED <<afterStop, endedArmed, restartsIssued, restartsSkipped>>

Resume ==
    /\ resume
    /\ Step("resume", "")
    /\ afterPause' = FALSE
    /\ afterStop' = FALSE
    /\ UNCHANGED <<endedArmed, restartsIssued, restartsSkipped>>

Destroy ==
    /\ destroy
    /\ Step("destroy", "")
    /\ UNCHANGED historyVars

OnResult ==
    /\ \E r \in ResultLists : onresult(r) /\ Step("onresult", r)
    /\ UNCHANGED historyVars

SetLanguage ==
    /\ \E l \in Languages : setLanguage(l) /\ Step("setLanguage", l)
    /\ UNCHANGED historyVars

OnStart ==
    /\ onstart
    /\ Step("onstart", "")
    /\ UNCHANGED historyVars

OnEnd ==
    /\ (autoRestart /\ ~isPaused) => endedArmed < MaxEnded
    /\ onend
    /\ Step("onend", "")
    /\ endedArmed' = IF autoRestart /\ ~isPaused
                     THEN endedArmed + 1 ELSE endedArmed
    /\ UNCHANGED <<afterPause, afterStop, restartsIssued, restartsSkipped>>

OnError ==
    \E c \in ErrorCodes :
        /\ onerror(c)
        /\ Step("onerror", c)
        /\ UNCHANGED historyVars

RestartTimer ==
    /\ restartTimer
    /\ Step("timer", "")
    /\ IF engineCall' = "start"
       THEN restartsIssued' = restartsIssued + 1 /\ UNCHANGED restartsSkipped
       ELSE restartsSkipped' = restartsSkipped + 1 /\ UNCHANGED restartsIssued
    /\ UNCHANGED <<afterPause, afterStop, endedArmed>>

Next ==
    \/ Start
    \/ Stop
    \/ Pause
    \/ Resume
    \/ Destroy
    \/ SetLanguage
    \/ OnResult
    \/ OnStart
    \/ OnEnd
    \/ OnError
    \/ RestartTimer

Spec == Init /\ [][Next]_vars

(* ---------------- InteractiveAvatar: the turn coordinator ------------- *)

\* the step's record in CoordSpec: o names the step where a property speaks
\* of it and is "" otherwise; the history of Spec is not kept there
CStep(o, a) ==
    /\ op' = o
    /\ arg' = a
    /\ UNCHANGED <<tick, prevOp, unsupportedReports, escaped, historyVars>>

SessionBecomes(s) ==
    /\ recognition' = s.recognition
    /\ isListening' = s.isListening
    /\ isPaused' = s.isPaused
    /\ autoRestart' = s.autoRestart
    /\ config' = s.config
    /\ restartTimers' = s.restartTimers
    /\ engine' = s.engine
    /\ engineCall' = s.engineCall
    /\ threw' = s.threw
    /\ cb' = s.cb

\* webSpeechRef.current?.pause()
CallPause == IF webSpeechRef THEN pause ELSE NoSessionCall

\* webSpeechRef.current?.resume()
CallResume == IF webSpeechRef THEN resume ELSE NoSessionCall

\* webSpeechRef.current?.start()
CallStart == IF webSpeechRef THEN start ELSE NoSessionCall

\* webSpeechRef.current?.destroy()
CallDestroy == IF webSpeechRef THEN destroy ELSE NoSessionCall

\* a turn in flight: whose it is, the await it is at, and whether the
\* settling delay of speakWithAvatar has elapsed in it.  Awaits that follow
\* each other with nothing in between are one place: "settle" is the 300 ms
\* delay and the interrupt() after it, "fetch" is the interrupt() of
\* handleTabChange and its fetchTabScript
Task(k, p, s, x) == [kind |-> k, pc |-> p, settled |-> s, text |-> x]

\* !v
Falsy(v) == v.type = "undefined" \/ (v.type = "string" /\ v.value = "")

\* the body the chat route answers with: {reply} with status 200, {error}
\* with status 500
RouteResponse(ok) ==
    IF ok THEN [type |-> "object", reply |-> JsString("reply")]
    ELSE [type |-> "object", error |-> JsString("Failed to get response")]

\* callOpenAI: the parsed body whatever the status, or from its catch the
\* fallback object
callOpenAI(outcome) ==
    IF outcome \in {"rejected", "unparsable"}
    THEN [type |-> "object", reply |-> FallbackReply]
    ELSE RouteResponse(outcome = "ok")

\* response.reply || response
ReplyOf(response) ==
    IF "reply" \in DOMAIN response /\ ~Falsy(response.reply)
    THEN response.reply
    ELSE response

\* String.prototype.startsWith, on strings given by their parts
StartsWith(str, prefix) ==
    /\ Len(prefix) <= Len(str)
    /\ SubSeq(str, 1, Len(prefix)) = prefix

Spawn(t) == tasks (+) SetToBag({t})
Drop(t) == tasks (-) SetToBag({t})
Move(t, u) == (tasks (-) SetToBag({t})) (+) SetToBag({u})

InFlight(k) == {t \in BagToSet(tasks) : t.kind = k}

\* the number of turns of kind k in flight
Count(k) == BagCardinality([t \in InFlight(k) |-> CopiesIn(t, tasks)])

\* the asynchronous activities of the coordinator that are pending
Pending ==
    BagCardinality(tasks) + resumeTimers + startTimers
        + (IF startPc # "idle" THEN 1 ELSE 0)
        + (IF resetPc # "idle" THEN 1 ELSE 0)

\* initWebSpeech, in a browser that has the engine
initWebSpeech ==
    IF webSpeechRef
    THEN NoSessionCall /\ UNCHANGED webSpeechRef
    ELSE SessionBecomes(NewSession("browser", TRUE)) /\ webSpeechRef' = TRUE

\* a turn that ends without clearing the processing flag
FinishedKeepsFlag(k) ==
    /\ isLoading' = IF k \in {"voice", "text", "tab"} THEN FALSE ELSE isLoading
    /\ isProcessingRef' = isProcessingRef
    /\ hasGreetedRef' = IF k = "greet" THEN TRUE ELSE hasGreetedRef

\* what follows the last await of a turn of kind k
Finished(k) ==
    /\ isLoading' = IF k \in {"voice", "text", "tab"} THEN FALSE ELSE isLoading
    /\ isProcessingRef' = IF k \in {"voice", "tab"} THEN FALSE ELSE isProcessingRef
    /\ hasGreetedRef' = IF k = "greet" THEN TRUE ELSE hasGreetedRef

\* speakWithAvatar(text), up to its first await (the settling delay), called
\* by turn t
speakWithAvatar(t, text) ==
    IF ~avatarRef \/ Falsy(text)
    THEN /\ NoSessionCall
         /\ tasks' = Drop(t)
         /\ Finished(t.kind)
         /\ UNCHANGED isAvatarSpeakingRef
    ELSE /\ isAvatarSpeakingRef' = TRUE
         /\ CallPause
         /\ tasks' = Move(t, Task(t.kind, "settle", FALSE, text))
         /\ UNCHANGED <<isLoading, isProcessingRef, hasGreetedRef>>

\* handleUserSpeech(transcript), up to the call of callOpenAI
handleUserSpeech(transcript) ==
    IF isAvatarSpeakingRef \/ Trim(transcript) = <<>> \/ isProcessingRef
    THEN UNCHANGED <<isProcessingRef, isLoading, tasks>>
    ELSE /\ isProcessingRef' = TRUE
         /\ isLoading' = TRUE
         /\ tasks' = Spawn(Task("voice", "openai", FALSE, JsUndefined))

\* onResult taking the avatar for silent whatever the ref says
onResultIgnoresAvatar(transcript, isFinal) ==
    IF isFinal /\ ~isProcessingRef /\ Trim(transcript) # <<>>
    THEN /\ isProcessingRef' = TRUE
         /\ isLoading' = TRUE
         /\ tasks' = Spawn(Task("voice", "openai", FALSE, JsUndefined))
    ELSE UNCHANGED <<isProcessingRef, isLoading, tasks>>

\* onResult handing every transcript to handleUserSpeech, final or not
onResultRepliesToInterim(transcript, isFinal) ==
    IF isAvatarSpeakingRef
    THEN UNCHANGED <<isProcessingRef, isLoading, tasks>>
    ELSE handleUserSpeech(transcript)

\* the onResult callback given to the session
onResult(transcript, isFinal) ==
    IF isAvatarSpeakingRef
    THEN UNCHANGED <<isProcessingRef, isLoading, tasks>>
    ELSE IF isFinal
         THEN handleUserSpeech(transcript)
         ELSE UNCHANGED <<isProcessingRef, isLoading, tasks>>

\* ---- engine events of the session webSpeechRef refers to

ResultEvent ==
    /\ \E r \in {<<e>> : e \in ResultEntries} :
           /\ onresult(r)
           /\ IF cb' # <<>>
              THEN onResult(cb'[1].text, cb'[1].isFinal)
              ELSE UNCHANGED <<isProcessingRef, isLoading, tasks>>
           /\ CStep("result", IF r[1].isFinal THEN "final" ELSE "interim")
    /\ UNCHANGED <<webSpeechRef, isAvatarSpeakingRef, hasStartedRef,
                   hasGreetedRef, avatarRef, sessionState, startPc, resetPc,
                   resumeTimers, startTimers, avatarSpeech>>
    /\ Pending' <= MaxPending

StartedEvent ==
    /\ onstart
    /\ CStep("", "")
    /\ UNCHANGED coordVars

EndedEvent ==
    /\ onend
    /\ CStep("", "")
    /\ UNCHANGED coordVars

ErrorEvent ==
    \E c \in ErrorCodes :
        /\ onerror(c)
        /\ CStep("", "")
        /\ UNCHANGED coordVars

RestartTimerFires ==
    /\ restartTimer
    /\ CStep("", "")
    /\ UNCHANGED coordVars

\* ---- the turns

\* callOpenAI resolves in a voice or text turn: speakWithAvatar(reply)
ReplyArrives ==
    \E t \in BagToSet(tasks), outcome \in CallOutcomes :
        /\ t.pc = "openai"
        /\ speakWithAvatar(t, ReplyOf(callOpenAI(outcome)))
        /\ CStep("reply", outcome)
        /\ UNCHANGED <<webSpeechRef, hasStartedRef, avatarRef, sessionState,
                       startPc, resetPc, resumeTimers, startTimers,
                       avatarSpeech>>

\* the 1500 ms wait of the STREAM_READY handler is over: speakWithAvatar(greeting)
GreetingDue ==
    \E t \in BagToSet(tasks) :
        /\ t.pc = "wait1500"
        /\ speakWithAvatar(t, JsString("greeting"))
        /\ CStep("", "")
        /\ UNCHANGED <<webSpeechRef, hasStartedRef, avatarRef, sessionState,
                       startPc, resetPc, resumeTimers, startTimers,
                       avatarSpeech>>

\* interrupt() has no effect, or drops the speech the avatar has queued
Interrupted(a, dropped) ==
    IF ~dropped THEN a
    ELSE IF a = "queued" THEN "silent"
    ELSE IF a = "talkingQueued" THEN "talking"
    ELSE a

\* the 300 ms settling delay of speakWithAvatar is over and its interrupt()
\* has settled (a failure is ignored): speak() is called
SettlingDelayOver ==
    \E t \in BagToSet(tasks), dropped \in BOOLEAN :
        /\ t.pc = "settle"
        /\ dropped => avatarSpeech \in {"queued", "talkingQueued"}
        /\ avatarSpeech' = Interrupted(avatarSpeech, dropped)
        /\ tasks' = Move(t, Task(t.kind, "speak", TRUE, t.text))
        /\ NoSessionCall
        /\ CStep("speak", t.kind)
        /\ UNCHANGED <<webSpeechRef, isAvatarSpeakingRef, isProcessingRef,
                       hasStartedRef, hasGreetedRef, isLoading, avatarRef,
                       sessionState, startPc, resetPc, resumeTimers,
                       startTimers>>

\* the interrupt() of handleTabChange has settled (a failure is ignored)
\* and fetchTabScript resolves, with the script or with one of its fallback
\* texts (never an empty string): handleTabChange calls speak() if there is
\* an avatar
TabScriptArrives ==
    \E t \in BagToSet(tasks), dropped \in BOOLEAN :
        /\ t.pc = "fetch"
        /\ dropped => (avatarRef /\ avatarSpeech \in {"queued", "talkingQueued"})
        /\ avatarSpeech' = Interrupted(avatarSpeech, dropped)
        /\ IF avatarRef
           THEN /\ tasks' = Move(t, Task("tab", "speak", t.settled,
                                          JsString("script")))
                /\ UNCHANGED <<isLoading, isProcessingRef, hasGreetedRef>>
           ELSE /\ tasks' = Drop(t)
                /\ Finished("tab")
        /\ NoSessionCall
        /\ CStep(IF avatarRef THEN "speak" ELSE "tabDone", "tab")
        /\ UNCHANGED <<webSpeechRef, isAvatarSpeakingRef, hasStartedRef,
                       avatarRef, sessionState, startPc, resetPc, resumeTimers,
                       startTimers>>

\* the avatar has taken one more speech to say
Queued(a) ==
    IF a = "silent" THEN "queued"
    ELSE IF a = "talking" THEN "talkingQueued"
    ELSE a

\* speak() resolves (the avatar service is connected and has taken the
\* speech): the turn is over
SpeakResolves ==
    \E t \in BagToSet(tasks) :
        /\ t.pc = "speak"
        /\ sessionState = "connected"
        /\ avatarSpeech' = Queued(avatarSpeech)
        /\ tasks' = Drop(t)
        /\ Finished(t.kind)
        /\ NoSessionCall
        /\ CStep("speakOk", t.kind)
        /\ UNCHANGED <<webSpeechRef, isAvatarSpeakingRef, hasStartedRef,
                       avatarRef, sessionState, startPc, resetPc, resumeTimers,
                       startTimers>>

\* speak() rejects: speakWithAvatar catches, clears the flag and resumes;
\* handleTabChange catches and logs
SpeakRejects ==
    \E t \in BagToSet(tasks) :
        /\ t.pc = "speak"
        /\ IF t.kind = "tab"
           THEN NoSessionCall /\ UNCHANGED isAvatarSpeakingRef
           ELSE isAvatarSpeakingRef' = FALSE /\ CallResume
        /\ tasks' = Drop(t)
        /\ Finished(t.kind)
        /\ CStep("speakFailed", t.kind)
        /\ UNCHANGED <<webSpeechRef, hasStartedRef, avatarRef, sessionState,
                       startPc, resetPc, resumeTimers, startTimers,
                       avatarSpeech>>

\* handleTabChange(tabId), up to its first await
handleTabChange ==
    IF isProcessingRef
    THEN /\ NoSessionCall
         /\ UNCHANGED <<isProcessingRef, isLoading, isAvatarSpeakingRef, tasks>>
    ELSE /\ isProcessingRef' = TRUE
         /\ isLoading' = TRUE
         /\ isAvatarSpeakingRef' = TRUE
         /\ CallPause
         /\ tasks' = Spawn(Task("tab", "fetch", FALSE, JsUndefined))

\* the allow-list test of handleMessage
isAllowed(origin) ==
    \E allowed \in allowedOrigins : StartsWith(origin.chars, allowed)

\* handleMessage: a message of some page; one that passes the origin test
\* and is a TAB_CHANGED with a tabId calls handleTabChange
TabChanged ==
    /\ \E m \in Messages :
           IF /\ isAllowed(m.origin)
              /\ m.data.type = "TAB_CHANGED"
              /\ m.data.tabId # ""
           THEN /\ handleTabChange
                /\ CStep("tabChange", m.origin.text)
           ELSE /\ NoSessionCall
                /\ UNCHANGED <<isProcessingRef, isLoading,
                               isAvatarSpeakingRef, tasks>>
                /\ CStep("", "")
    /\ UNCHANGED <<webSpeechRef, hasStartedRef, hasGreetedRef, avatarRef,
                   sessionState, startPc, resetPc, resumeTimers, startTimers,
                   avatarSpeech>>
    /\ Pending' <= MaxPending

\* handleSendMessage, up to the call of callOpenAI; the input is disabled
\* while loading or while the avatar speaks, and shown only when connected
handleSendMessage ==
    /\ sessionState = "connected"
    /\ ~isAvatarSpeakingRef
    /\ avatarRef /\ ~isLoading
    /\ Pending < MaxPending
    /\ isLoading' = TRUE
    /\ tasks' = Spawn(Task("text", "openai", FALSE, JsUndefined))
    /\ NoSessionCall
    /\ CStep("", "")
    /\ UNCHANGED <<webSpeechRef, isAvatarSpeakingRef, isProcessingRef,
                   hasStartedRef, hasGreetedRef, avatarRef, sessionState,
                   startPc, resetPc, resumeTimers, startTimers, avatarSpeech>>

\* ---- the avatar service's events (handlers installed by startSession)

\* AVATAR_START_TALKING
AvatarStartTalking ==
    /\ avatarSpeech = "queued"
    /\ avatarSpeech' = "talking"
    /\ isAvatarSpeakingRef' = TRUE
    /\ CallPause
    /\ CStep("", "")
    /\ UNCHANGED <<webSpeechRef, isProcessingRef, hasStartedRef, hasGreetedRef,
                   isLoading, avatarRef, sessionState, startPc, resetPc, tasks,
                   resumeTimers, startTimers>>

\* AVATAR_STOP_TALKING, up to its await of the 500 ms settling delay
AvatarStopTalking ==
    /\ avatarSpeech \in {"talking", "talkingQueued"}
    /\ Pending < MaxPending
    /\ avatarSpeech' = IF avatarSpeech = "talking" THEN "silent" ELSE "queued"
    /\ isAvatarSpeakingRef' = FALSE
    /\ resumeTimers' = resumeTimers + 1
    /\ NoSessionCall
    /\ CStep("stopTalking", "")
    /\ UNCHANGED <<webSpeechRef, isProcessingRef, hasStartedRef, hasGreetedRef,
                   isLoading, avatarRef, sessionState, startPc, resetPc, tasks,
                   startTimers>>

\* the settling delay is over and nothing is resumed
DelayedResumeForgets ==
    /\ resumeTimers > 0
    /\ resumeTimers' = resumeTimers - 1
    /\ NoSessionCall
    /\ CStep("delayedResume", "")
    /\ UNCHANGED <<webSpeechRef, isAvatarSpeakingRef, isProcessingRef,
                   hasStartedRef, hasGreetedRef, isLoading, avatarRef,
                   sessionState, startPc, resetPc, tasks, startTimers,
                   avatarSpeech>>

\* the 500 ms settling delay is over: webSpeechRef.current?.resume()
DelayedResume ==
    /\ resumeTimers > 0
    /\ resumeTimers' = resumeTimers - 1
    /\ CallResume
    /\ CStep("delayedResume", "")
    /\ UNCHANGED <<webSpeechRef, isAvatarSpeakingRef, isProcessingRef,
                   hasStartedRef, hasGreetedRef, isLoading, avatarRef,
                   sessionState, startPc, resetPc, tasks, startTimers,
                   avatarSpeech>>

\* STREAM_READY: the stream is shown; the first one of a session greets
StreamReady ==
    /\ sessionState = "connecting"
    /\ sessionState' = "connected"
    /\ IF hasGreetedRef
       THEN UNCHANGED tasks
       ELSE tasks' = Spawn(Task("greet", "wait1500", FALSE, JsUndefined))
    /\ NoSessionCall
    /\ CStep("", "")
    /\ UNCHANGED <<webSpeechRef, isAvatarSpeakingRef, isProcessingRef,
                   hasStartedRef, hasGreetedRef, isLoading, avatarRef, startPc,
                   resetPc, resumeTimers, startTimers, avatarSpeech>>
    /\ Pending' <= MaxPending

\* STREAM_DISCONNECTED
StreamDisconnected ==
    /\ sessionState = "connected"
    /\ sessionState' = "inactive"
    /\ avatarSpeech' = "silent"
    /\ hasGreetedRef' = FALSE
    /\ hasStartedRef' = FALSE
    /\ CallDestroy
    /\ webSpeechRef' = FALSE
    /\ CStep("", "")
    /\ UNCHANGED <<isAvatarSpeakingRef, isProcessingRef, isLoading, avatarRef,
                   startPc, resetPc, tasks, resumeTimers, startTimers>>

\* ---- startSession

\* the start button (shown while the session is inactive), up to the await
\* of fetchAccessToken
startSession ==
    /\ sessionState = "inactive"
    /\ startPc = "idle"
    /\ hasStartedRef \/ Pending < MaxPending
    /\ IF hasStartedRef
       THEN UNCHANGED <<hasStartedRef, startPc>>
       ELSE hasStartedRef' = TRUE /\ startPc' = "token"
    /\ NoSessionCall
    /\ CStep("", "")
    /\ UNCHANGED <<webSpeechRef, isAvatarSpeakingRef, isProcessingRef,
                   hasGreetedRef, isLoading, avatarRef, sessionState, resetPc,
                   tasks, resumeTimers, startTimers, avatarSpeech>>

\* fetchAccessToken settles: initAvatar, the handlers, startAvatar is called;
\* or the catch of startSession
TokenSettles ==
    \E ok \in BOOLEAN :
        /\ startPc = "token"
        /\ IF ok
           THEN /\ avatarRef' = TRUE
                /\ sessionState' = "connecting"
                /\ startPc' = "startAvatar"
                /\ UNCHANGED hasStartedRef
           ELSE /\ hasStartedRef' = FALSE
                /\ startPc' = "idle"
                /\ UNCHANGED <<avatarRef, sessionState>>
        /\ NoSessionCall
        /\ CStep("", "")
        /\ UNCHANGED <<webSpeechRef, isAvatarSpeakingRef, isProcessingRef,
                       hasGreetedRef, isLoading, resetPc, tasks, resumeTimers,
                       startTimers, avatarSpeech>>

\* startAvatar settles: initWebSpeech and the 2000 ms timer of start(); or
\* the catch of startSession
StartAvatarSettles ==
    \E ok \in BOOLEAN :
        /\ startPc = "startAvatar"
        /\ startPc' = "idle"
        /\ IF ok
           THEN /\ initWebSpeech
                /\ startTimers' = startTimers + 1
                /\ UNCHANGED <<hasStartedRef, sessionState>>
           ELSE /\ hasStartedRef' = FALSE
                /\ sessionState' = "inactive"
                /\ NoSessionCall
                /\ UNCHANGED <<webSpeechRef, startTimers>>
        /\ CStep("", "")
        /\ UNCHANGED <<isAvatarSpeakingRef, isProcessingRef, hasGreetedRef,
                       isLoading, avatarRef, resetPc, tasks, resumeTimers,
                       avatarSpeech>>

\* a timer of webSpeechRef.current?.start() fires
DelayedStart ==
    /\ startTimers > 0
    /\ startTimers' = startTimers - 1
    /\ CallStart
    /\ CStep("", "")
    /\ UNCHANGED <<webSpeechRef, isAvatarSpeakingRef, isProcessingRef,
                   hasStartedRef, hasGreetedRef, isLoading, avatarRef,
                   sessionState, startPc, resetPc, tasks, resumeTimers,
                   avatarSpeech>>

\* ---- the microphone button (shown when connected, disabled while the
\* avatar speaks)

toggleMicrophone ==
    /\ sessionState = "connected"
    /\ ~isAvatarSpeakingRef
    /\ IF ~webSpeechRef
       THEN /\ Pending < MaxPending
            /\ initWebSpeech
            /\ startTimers' = startTimers + 1
       ELSE /\ IF isPaused THEN resume ELSE pause
            /\ UNCHANGED <<webSpeechRef, startTimers>>
    /\ CStep("", "")
    /\ UNCHANGED <<isAvatarSpeakingRef, isProcessingRef, hasStartedRef,
                   hasGreetedRef, isLoading, avatarRef, sessionState, startPc,
                   resetPc, tasks, resumeTimers, avatarSpeech>>

\* ---- resetSession (the close button, shown when connected)

\* up to the await of avatarRef.current.stopAvatar()
resetSession ==
    /\ sessionState = "connected"
    /\ resetPc = "idle"
    /\ Pending < MaxPending
    /\ CallDestroy
    /\ webSpeechRef' = FALSE
    /\ resetPc' = "stopping"
    /\ CStep("", "")
    /\ UNCHANGED <<isAvatarSpeakingRef, isProcessingRef, hasStartedRef,
                   hasGreetedRef, isLoading, avatarRef, sessionState, startPc,
                   tasks, resumeTimers, startTimers, avatarSpeech>>

\* avatarRef.current.stopAvatar() and the hook's stopAvatar have settled
\* (failures are ignored; the avatar is silent and the session inactive):
\* the refs and the state are reset.  Nothing follows the 1000 ms wait
ResetState ==
    /\ resetPc = "stopping"
    /\ resetPc' = "idle"
    /\ avatarSpeech' = "silent"
    /\ sessionState' = "inactive"
    /\ hasStartedRef' = FALSE
    /\ hasGreetedRef' = FALSE
    /\ isProcessingRef' = FALSE
    /\ isAvatarSpeakingRef' = FALSE
    /\ isLoading' = FALSE
    /\ NoSessionCall
    /\ CStep("", "")
    /\ UNCHANGED <<webSpeechRef, avatarRef, startPc, tasks, resumeTimers,
                   startTimers>>

(* --------------------- the widget as a whole: CoordSpec --------------- *)

\* the component is mounted and no session exists: the session fields hold
\* the values of a session without an engine until initWebSpeech makes one
CoordInit ==
    /\ SessionIs(NewSession("ssr", TRUE))
    /\ escaped = FALSE
    /\ op = "mount"
    /\ arg = ""
    /\ HistoryInit
    /\ Mounted

CoordNext ==
    \/ ResultEvent
    \/ StartedEvent
    \/ EndedEvent
    \/ ErrorEvent
    \/ RestartTimerFires
    \/ ReplyArrives
    \/ GreetingDue
    \/ SettlingDelayOver
    \/ TabScriptArrives
    \/ SpeakResolves
    \/ SpeakRejects
    \/ TabChanged
    \/ handleSendMessage
    \/ AvatarStartTalking
    \/ AvatarStopTalking
    \/ DelayedResume
    \/ StreamReady
    \/ StreamDisconnected
    \/ startSession
    \/ TokenSettles
    \/ StartAvatarSettles
    \/ DelayedStart
    \/ toggleMicrophone
    \/ resetSession
    \/ ResetState

CoordSpec == CoordInit /\ [][CoordNext]_vars

\* the turns that take the processing flag
FlagTurns == InFlight("voice") \cup InFlight("tab")

\* a step in which an await of such a turn returns: callOpenAI, the
\* settling delay, fetchTabScript or speak()
Advances ==
    /\ FlagTurns # {}
    /\ \/ op' = "reply" /\ ReplyArrives
       \/ op' = "speak" /\ (SettlingDelayOver \/ TabScriptArrives)
       \/ op' = "tabDone" /\ TabScriptArrives
       \/ op' = "speakOk" /\ SpeakResolves
       \/ op' = "speakFailed" /\ SpeakRejects
    /\ \E t \in FlagTurns : CopiesIn(t, tasks') < CopiesIn(t, tasks)

\* the widget where timers fire and the external calls of the turns that
\* hold the processing flag return
CoordLiveSpec ==
    /\ CoordSpec
    /\ WF_vars(DelayedResume)
    /\ WF_vars(Advances)

(* ----------------------- properties of the session -------------------- *)

\* C1: once pause() has taken effect, and until start() or resume() is
\* called, no step issues an engine start request: neither an 'ended' event
\* nor a restart timer, including a timer armed before the pause.
C1_NoRestartWhilePaused == afterPause => engineCall # "start"

\* a restart timer, armed before the pause, has fired while paused
C1_Witness == afterPause /\ isPaused /\ op = "timer" /\ endedArmed > 0

\* C2 as stated: every 'ended' event received while autoRestart and not
\* paused gets exactly one restart request, issued by its timer and not by
\* the handler: no timer fires without issuing one.
C2_ExactlyOnePerEnded ==
    /\ endedArmed = restartsIssued + restartTimers
    /\ op = "onend" => engineCall # "start"

\* C2 as amended: every such 'ended' event arms exactly one restart timer
\* and issues no engine start itself; a timer that fires issues exactly one
\* start request if the session is then not paused and not destroyed, and
\* none otherwise.
C2_OneTimerPerEnded ==
    /\ endedArmed = restartsIssued + restartsSkipped + restartTimers
    /\ op = "onend" => engineCall = "none"
    /\ op = "timer" =>
           ((engineCall = "start") <=> (~isPaused /\ recognition # "null"))

\* two 'ended' events have each had their restart request
C2_Witness == op = "timer" /\ engineCall = "start" /\ restartsIssued >= 2

\* C8: an engine error 'no-speech' or 'aborted' invokes no callback; any
\* other code invokes onError exactly once, with that code.
C8_ErrorForwarding ==
    op = "onerror" =>
        IF arg \in {"no-speech", "aborted"}
        THEN cb = <<>>
        ELSE cb = <<CbOnError(arg)>>

\* the engine has reported 'aborted' after a pause() and nothing was forwarded
C8_Witness == op = "onerror" /\ arg = "aborted" /\ afterPause /\ cb = <<>>

\* C9 as stated: a stop() that directly follows a stop() makes no engine
\* call and leaves isPaused, autoRestart and isListening as they were.
C9_StopIdempotent ==
    [][(op = "stop" /\ op' = "stop") =>
           /\ engineCall' = "none"
           /\ isPaused' = isPaused
           /\ autoRestart' = autoRestart
           /\ isListening' = isListening]_vars

\* C10 as stated: a resume() on a session that is not paused changes none
\* of isPaused, autoRestart, isListening, and does not start the engine a
\* second time after a start() that started it.
C10_ResumeWhenNotPaused ==
    [][(op' = "resume" /\ ~isPaused /\ recognition # "null") =>
           /\ isPaused' = isPaused
           /\ autoRestart' = autoRestart
           /\ isListening' = isListening
           /\ ~(op = "start" /\ engineCall = "start" /\ engineCall' = "start")]_vars

\* C12: after stop() on a live session, and until the caller invokes
\* start() or resume(), isPaused is true, autoRestart is false and no step
\* issues an engine start request: no 'ended' event and no restart timer,
\* including one armed before the stop.
C12_DurableStop ==
    afterStop => (isPaused /\ ~autoRestart /\ engineCall # "start")

\* a restart timer armed before the stop has fired after it, issuing nothing
C12_Witness ==
    afterStop /\ op = "timer" /\ restartsSkipped > 0 /\ engineCall = "none"

\* C13 as stated: pause() leaves autoRestart alone, and autoRestart after
\* pause(); resume() is what it was immediately before the pause().
C13_PauseResumeRestores ==
    [][/\ op' = "pause" => autoRestart' = autoRestart
       /\ (op = "pause" /\ op' = "resume") => autoRestart' = autoRestart]_vars

\* C13 as amended: pause() leaves autoRestart alone; pause(); resume() on a
\* live session leaves autoRestart at the configured default, and on a
\* session without an engine handle leaves it as it was.
C13_PauseResumeConfigured ==
    [][/\ op' = "pause" => autoRestart' = autoRestart
       /\ (op = "pause" /\ op' = "resume") =>
              autoRestart' = IF recognition # "null"
                             THEN config.autoRestart ELSE autoRestart]_vars

\* pause(); resume() on a live session
C13_Witness ==
    /\ prevOp = "pause"
    /\ op = "resume"
    /\ recognition # "null"
    /\ autoRestart
    /\ ~isPaused

\* C14 as stated: start() while isListening makes no engine call and
\* changes nothing; otherwise it clears isPaused and issues one engine start
\* request, whose failure is caught and reaches no callback.
C14_StartAsStated ==
    [][op' = "start" =>
           IF isListening
           THEN /\ engineCall' = "none"
                /\ cb' = <<>>
                /\ UNCHANGED <<recognition, isListening, isPaused, autoRestart,
                               config, restartTimers, engine>>
           ELSE /\ isPaused' = FALSE
                /\ engineCall' = "start"
                /\ cb' = <<>>]_vars

\* C14 as amended: start() on a session that has no engine handle, or whose
\* isListening is true, makes no engine call and changes nothing; otherwise
\* it clears isPaused and issues one engine start request, whose failure is
\* caught and reaches no callback.
C14_StartOnLiveSession ==
    [][op' = "start" =>
           IF recognition = "null" \/ isListening
           THEN /\ engineCall' = "none"
                /\ cb' = <<>>
                /\ UNCHANGED <<recognition, isListening, isPaused, autoRestart,
                               config, restartTimers, engine>>
           ELSE /\ isPaused' = FALSE
                /\ engineCall' = "start"
                /\ cb' = <<>>
                /\ UNCHANGED <<recognition, isListening, autoRestart, config,
                               restartTimers>>]_vars

\* a start() whose engine start request failed and was caught
C14_Witness ==
    op = "start" /\ engineCall = "start" /\ threw /\ cb = <<>> /\ ~isPaused

\* the session was live and has been destroyed
Destroyed == recognition = "null" /\ engine # "none"

\* C15: destroy() sets isPaused, clears autoRestart, aborts the engine once
\* and releases the handle; a destroy() after a destroy() makes no engine
\* call, raises nothing and leaves the session as it was.
C15_DestroyRepeatable ==
    [][op' = "destroy" =>
           /\ isPaused'
           /\ ~autoRestart'
           /\ recognition' = "null"
           /\ cb' = <<>>
           /\ ~threw'
           /\ engineCall' = IF recognition # "null" THEN "abort" ELSE "none"
           /\ (op = "destroy" \/ Destroyed) =>
                  /\ engineCall' = "none"
                  /\ UNCHANGED <<recognition, isListening, isPaused, autoRestart,
                                 config, restartTimers, engine>>]_vars

\* a live session destroyed twice in a row
C15_Witness ==
    /\ prevOp = "destroy"
    /\ op = "destroy"
    /\ Destroyed
    /\ engineCall = "none"

\* C16 as stated: a session constructed where there is no engine handle to
\* be had (no engine, or no window) has reported it through onError.
C16_ReportsUnsupported ==
    (op = "new" /\ recognition = "null") =>
        (cb # <<>> /\ cb[1].name = "onError")

\* C17 as stated: once the missing engine has been reported, it is reported
\* no second time, and start, stop, pause, resume and destroy make no engine
\* call, invoke no callback and leave isListening, isPaused and autoRestart
\* as they were.
C17_NoOpsWithoutEngine ==
    [][(unsupportedReports = 1 /\ recognition = "null" /\ engine = "none"
          /\ op' \in {"start", "stop", "pause", "resume", "destroy"}) =>
           /\ unsupportedReports' = 1
           /\ engineCall' = "none"
           /\ cb' = <<>>
           /\ UNCHANGED <<isListening, isPaused, autoRestart>>]_vars

\* C18 as stated: on a live session that is paused or not listening,
\* start() and resume() each clear isPaused and issue an engine start
\* request.
C18_Recoverable ==
    [][(op' \in {"start", "resume"} /\ recognition # "null"
          /\ (isPaused \/ ~isListening)) =>
           (~isPaused' /\ engineCall' = "start")]_vars

\* C21 as stated: no operation of the session, the constructor included,
\* throws to its caller.
C21_NothingEscapes == ~escaped

\* C22: once a live session has been destroyed, no step issues an engine
\* start request: no restart timer armed before the destroy(), no start()
\* and no resume().
C22_NoStartAfterDestroy == Destroyed => engineCall # "start"

\* a restart timer armed before the destroy() has fired after it
C22_Witness ==
    Destroyed /\ op = "timer" /\ restartsSkipped > 0 /\ engineCall = "none"

\* C24 as stated: isListening and isPaused are never both true.
C24_NotListeningWhilePaused == ~(isListening /\ isPaused)

\* what trim() makes of the transcripts of the result entries
Trimmed(transcript) ==
    IF transcript = <<" ">> THEN <<>>
    ELSE IF transcript = <<"a">> THEN <<"a">>
    ELSE <<"b">>

\* C25: a result event invokes onResult at most once, with the trimmed
\* transcript and the isFinal of the last entry of its list, and not at all
\* when that trimmed transcript is empty; earlier entries reach no callback.
C25_LastEntryOnly ==
    op = "onresult" =>
        LET last == arg[Len(arg)]
        IN  cb = IF Trimmed(last.transcript) = <<>> THEN <<>>
                 ELSE <<CbOnResult(Trimmed(last.transcript), last.isFinal)>>

\* a list of two entries whose first is final and whose last is an interim
\* transcript with blanks around it
C25_Witness ==
    /\ op = "onresult"
    /\ Len(arg) = 2
    /\ arg[1] = [transcript |-> <<"a">>, isFinal |-> TRUE]
    /\ arg[2] = [transcript |-> <<" ", "b", " ">>, isFinal |-> FALSE]
    /\ cb = <<CbOnResult(<<"b">>, FALSE)>>

\* C26: start() leaves autoRestart as it is; an 'ended' event received
\* while autoRestart is false arms no restart timer and issues no start;
\* and only resume() takes autoRestart from false to true.
C26_StartKeepsAutoRestart ==
    [][/\ op' = "start" => autoRestart' = autoRestart
       /\ (op' = "onend" /\ ~autoRestart) =>
              (restartTimers' = restartTimers /\ engineCall' = "none")
       /\ (~autoRestart /\ autoRestart') => op' = "resume"]_vars

\* after stop() and start() (not paused, autoRestart false although the
\* configured default is true) an 'ended' event has armed no restart
C26_Witness ==
    /\ op = "onend"
    /\ recognition # "null"
    /\ config.autoRestart
    /\ ~autoRestart
    /\ ~isPaused
    /\ restartTimers = 0

(* --------------------- properties of the coordinator ------------------ *)

\* C3: a transcript, interim or final, that the session delivers while the
\* avatar-speaking flag is set starts no turn: no turn goes in flight (no
\* callOpenAI) and the processing flag is not taken.
C3_AvatarTurnDropsTranscripts ==
    [][(isAvatarSpeakingRef /\ cb' # <<>> /\ cb'[1].name = "onResult") =>
           /\ tasks' = tasks
           /\ isProcessingRef' = isProcessingRef
           /\ isLoading' = isLoading]_vars

\* a final transcript has been delivered while the flag was set, with no
\* other turn holding the processing flag
C3_Witness ==
    /\ isAvatarSpeakingRef
    /\ cb # <<>>
    /\ cb[1].name = "onResult"
    /\ cb[1].isFinal
    /\ ~isProcessingRef

\* C4 as stated: every turn whose speak request has been issued paused the
\* session and let the settling delay elapse before issuing it.
C4_SettledBeforeSpeak ==
    \A t \in BagToSet(tasks) : t.pc = "speak" => t.settled

\* C5 as stated: while the avatar-speaking flag is set, an existing session
\* is paused.
C5_PausedDuringAvatarTurn ==
    (isAvatarSpeakingRef /\ webSpeechRef) => isPaused

\* C6 as stated: when a speak request has failed, on either path, the flag
\* is cleared and the session, if there is one, is resumed.
C6_FailOpen ==
    op = "speakFailed" =>
        (~isAvatarSpeakingRef /\ (webSpeechRef => ~isPaused))

\* C7 as stated: at most one voice turn is in flight.
C7_OneUserTurn == Count("voice") <= 1

\* C11 as stated: when callOpenAI has failed (rejected fetch, body that is
\* no JSON, error response of the route), the text the turn hands to
\* speakWithAvatar is the fixed fallback string.
C11_FallbackOnFailure ==
    [][(op' = "reply" /\ arg' # "ok" /\ avatarRef) =>
           \E t \in BagToSet(tasks) :
               /\ t.pc = "openai"
               /\ tasks' = Move(t, Task(t.kind, "settle", FALSE, FallbackReply))]_vars

\* C19: a result event with a non-blank transcript invokes onResult once,
\* with the event's isFinal; an interim one starts no turn and calls no
\* callOpenAI, and a final one outside an avatar turn, with no turn being
\* processed, starts the one voice turn.
C19_OnlyFinalReplies ==
    [][op' = "result" =>
           /\ cb' # <<>> =>
                  /\ Len(cb') = 1
                  /\ cb'[1].name = "onResult"
                  /\ cb'[1].isFinal = (arg' = "final")
           /\ arg' = "interim" =>
                  /\ tasks' = tasks
                  /\ isProcessingRef' = isProcessingRef
           /\ (arg' = "final" /\ cb' # <<>> /\ ~isAvatarSpeakingRef
                 /\ ~isProcessingRef) =>
                  /\ tasks' = Spawn(Task("voice", "openai", FALSE, JsUndefined))
                  /\ isProcessingRef']_vars

\* an interim transcript has been delivered outside an avatar turn, with no
\* turn being processed, and no turn is in flight
C19_Witness ==
    /\ op = "result"
    /\ arg = "interim"
    /\ cb # <<>>
    /\ ~cb[1].isFinal
    /\ ~isAvatarSpeakingRef
    /\ ~isProcessingRef
    /\ Count("voice") = 0

\* C20 as stated: handleTabChange is called only for a message whose origin
\* is one of the trusted origins.
C20_OnlyTrustedOrigins ==
    op = "tabChange" => arg \in {allowed[1] : allowed \in allowedOrigins}

\* C28 as stated: a tab-change message that arrives while the processing
\* flag is held starts no turn, pauses nothing and changes no flag; and a
\* result event that arrives while a tab-change turn is in flight starts no
\* turn.
C28_VoiceAndTabExclude ==
    [][/\ (op' = "tabChange" /\ isProcessingRef) =>
              /\ tasks' = tasks
              /\ engineCall' = "none"
              /\ isPaused' = isPaused
              /\ isAvatarSpeakingRef' = isAvatarSpeakingRef
       /\ (op' = "result" /\ Count("tab") > 0) => tasks' = tasks]_vars

\* C23: a 'stopped talking' event calls no resume() itself but leaves the
\* settling delay pending; the delay is eventually over, and then resume()
\* is called on the session if there is one.
C23_ResumeAfterStopTalking ==
    /\ [](op = "stopTalking" => (engineCall = "none" /\ resumeTimers > 0))
    /\ [](op = "delayedResume" => (webSpeechRef => (engineCall = "start" /\ ~isPaused)))
    /\ (op = "stopTalking") ~> (op = "delayedResume")

\* the delayed resume() has restarted a session that was paused for the
\* avatar's turn
C23_Witness ==
    /\ op = "delayedResume"
    /\ webSpeechRef
    /\ engineCall = "start"
    /\ ~threw
    /\ ~isAvatarSpeakingRef

\* C27: the step in which the last call of a voice or tab-change turn
\* returns, with success or with failure, leaves the processing flag
\* cleared; and the flag, once set, is eventually cleared.
C27_ProcessingReleased ==
    /\ []((op \in {"speakOk", "speakFailed", "tabDone"} /\ arg \in {"voice", "tab"})
              => ~isProcessingRef)
    /\ isProcessingRef ~> ~isProcessingRef

\* a voice or tab-change turn whose speak() failed has released the flag
C27_Witness ==
    /\ op = "speakFailed"
    /\ arg \in {"voice", "tab"}
    /\ ~isProcessingRef
    /\ Count("voice") + Count("tab") = 0

=============================================================================
